---- MODULE Spec2Model ----
(***************************************************************************)
(* Model of hyprland-autohide-layers (src/src/main.rs): one poll loop      *)
(* (the main thread) that stores the cursor position behind an RwLock and  *)
(* calls Condvar::notify_all, and one watcher thread per layer that reads  *)
(* the position under the read lock, runs Layer::toggle_visibility and     *)
(* then blocks in Condvar::wait.  StartupSpec puts the startup of main in  *)
(* front of them (the get_layers loop and the spawn), and HitSpec runs     *)
(* Layer::toggle_visibility on its own over a set of rectangles.           *)
(*                                                                         *)
(* Coordinates are small integers.  The f32 expression h * 2.0 / 3.0 of    *)
(* does_contain_cursor is kept exact by comparing all vertical bounds      *)
(* multiplied by 3; for integer coordinates of this size the f32 rounding  *)
(* of the source cannot move a bound across an integer.                    *)
(***************************************************************************)
EXTENDS Integers, Sequences, FiniteSets, TLC

\* Bounds of the model: the columns of the pointer grid right of column 0,
\* and the length of a window list.
MaxX == 0
MaxClients == 2

VARIABLES
    cursorpos,   \* the CursorPos inside the RwLock (main.rs:178)
    writer,      \* TRUE while the poll loop holds the write guard prev_pos
    readers,     \* the watchers holding a read guard curr_pos
    mutex,       \* holder of notifier.0, or NoThread
    dpc,         \* position of the poll loop (main thread)
    ovr,         \* result of fullscreen_or_floating_focused(..).is_ok_and(|res| res) in the last tick
    curr,        \* curr_pos of the poll loop (main.rs:213)
    wpc,         \* position of each watcher thread
    visible,     \* Layer.visible of each watcher's layer
    lastPos,     \* the position each watcher read in its latest decision step
    calls,       \* toggle() invocations of the decision step each watcher is in
    log,         \* what the decision step each watcher is in has printed
    pending,     \* watchers for which notify_all was called since their latest decision step began
    fresh,       \* watchers that have not yet finished their first decision step
    stored,      \* TRUE once the poll loop has stored a position (main.rs:225)
    spc,         \* position of main before the poll loop (main.rs:171-199)
    layers,      \* the Vec<Layer> of main.rs:171, until it is moved into the threads
    tries,       \* get_layers calls made so far by the startup loop
    probe,       \* a layer, a belief and a pointer position handed to toggle_visibility on their own
    hbelief,     \* self.visible of the probed layer
    hist         \* what each probed toggle_visibility call did

vars == <<cursorpos, writer, readers, mutex, dpc, ovr, curr,
          wpc, visible, lastPos, calls, log, pending, fresh, stored,
          spc, layers, tries, probe, hbelief, hist>>

startupVars == <<spc, layers, tries>>
probeVars == <<probe, hbelief, hist>>
threadVars == <<cursorpos, writer, readers, mutex, dpc, ovr, curr,
                wpc, visible, lastPos, calls, log, pending, fresh, stored>>

driverVars == <<cursorpos, writer, dpc, ovr, curr>>
watcherVars == <<readers, mutex, wpc, visible, lastPos, calls, log>>

NoThread == "none"
\* no layer is being called on its own
NoProbe == [layer |-> [x |-> 0, y |-> 0, w |-> 0, h |-> 0], cursor |-> [x |-> 0, y |-> 0]]

-----------------------------------------------------------------------------
\* Data

\* The layers resolved at startup, by namespace: a bar at the top edge
\* (y <= h) and a bar further down (y > h).
Layers == {"top", "bottom"}

Layer(ns) ==
    IF ns = "top" THEN [x |-> 0, y |-> 0, w |-> 0, h |-> 1]
                  ELSE [x |-> 0, y |-> 2, w |-> 0, h |-> 1]

\* The rows of the pointer grid reach the lower edge of the lowest layer.
GridY == Layer("bottom").y + Layer("bottom").h

\* struct CursorPos
CursorPos == [x : 0..MaxX, y : 0..GridY]

\* A hit test whose buffer is taken off while visible and added while hidden.
does_contain_cursor_buffer_swapped(layer, vis, cursor) ==
    LET y_buffer3 == layer.h * 2
        y_max3 == 3 * (layer.y + layer.h)
        y_min3 == 3 * layer.y
        bar_y_min3 == IF layer.y > layer.h
                      THEN (IF vis THEN y_min3 + y_buffer3 ELSE y_min3 - y_buffer3)
                      ELSE y_min3
        bar_y_max3 == IF layer.y > layer.h
                      THEN y_max3
                      ELSE (IF vis THEN y_max3 - y_buffer3 ELSE y_max3 + y_buffer3)
    IN  /\ 3 * cursor.y <= bar_y_max3
        /\ 3 * cursor.y >= bar_y_min3
        /\ cursor.x <= layer.x + layer.w
        /\ cursor.x >= layer.x

\* A hit test that buffers every layer at its lower edge, wherever it is.
does_contain_cursor_one_anchor(layer, vis, cursor) ==
    LET y_buffer3 == layer.h * 2
        y_max3 == 3 * (layer.y + layer.h)
        bar_y_max3 == IF vis THEN y_max3 + y_buffer3 ELSE y_max3 - y_buffer3
    IN  /\ 3 * cursor.y <= bar_y_max3
        /\ 3 * cursor.y >= 3 * layer.y
        /\ cursor.x <= layer.x + layer.w
        /\ cursor.x >= layer.x

\* A hit test whose right and lower edges are exclusive.
does_contain_cursor_open_edges(layer, vis, cursor) ==
    LET y_buffer3 == layer.h * 2
        y_max3 == 3 * (layer.y + layer.h)
        y_min3 == 3 * layer.y
        bar_y_min3 == IF layer.y > layer.h
                      THEN (IF vis THEN y_min3 - y_buffer3 ELSE y_min3 + y_buffer3)
                      ELSE y_min3
        bar_y_max3 == IF layer.y > layer.h
                      THEN y_max3
                      ELSE (IF vis THEN y_max3 + y_buffer3 ELSE y_max3 - y_buffer3)
    IN  /\ 3 * cursor.y < bar_y_max3
        /\ 3 * cursor.y >= bar_y_min3
        /\ cursor.x < layer.x + layer.w
        /\ cursor.x >= layer.x

\* Layer::does_contain_cursor; vertical bounds are multiplied by 3 so that
\* y_buffer = h * 2 / 3 stays exact.
does_contain_cursor(layer, vis, cursor) ==
    LET y_buffer3 == layer.h * 2
        y_max3 == 3 * (layer.y + layer.h)
        y_min3 == 3 * layer.y
        bar_y_min3 == IF layer.y > layer.h
                      THEN (IF vis THEN y_min3 - y_buffer3 ELSE y_min3 + y_buffer3)
                      ELSE y_min3
        bar_y_max3 == IF layer.y > layer.h
                      THEN y_max3
                      ELSE (IF vis THEN y_max3 + y_buffer3 ELSE y_max3 - y_buffer3)
        bar_x_max == layer.x + layer.w
        bar_x_min == layer.x
    IN  /\ 3 * cursor.y <= bar_y_max3
        /\ 3 * cursor.y >= bar_y_min3
        /\ cursor.x <= bar_x_max
        /\ cursor.x >= bar_x_min

\* struct Client
Client == [fullscreen : BOOLEAN, floating : BOOLEAN, focus_history_id : 0..1]

ClientLists == UNION {[1..n -> Client] : n \in 0..MaxClients}

\* What the compositor socket can give to j/clients: a window list, text
\* that serde_json rejects, or no connection (connect(..).unwrap() panics).
ClientReplies ==
    {[kind |-> "ok", clients |-> c] : c \in ClientLists}
        \cup {[kind |-> "parse_error", clients |-> <<>>],
              [kind |-> "connect_error", clients |-> <<>>]}

\* fullscreen_or_floating_focused, on a reply that is not a connect error:
\* Ok(bool) or Err.
fullscreen_or_floating_focused(reply) ==
    IF reply.kind = "parse_error" THEN [ok |-> FALSE, res |-> FALSE]
    ELSE IF reply.clients = <<>> THEN [ok |-> TRUE, res |-> FALSE]
    ELSE [ok |-> TRUE,
          res |-> \E i \in 1..Len(reply.clients) :
                     /\ reply.clients[i].focus_history_id = 0
                     /\ (reply.clients[i].fullscreen \/ reply.clients[i].floating)]

\* Result::is_ok_and(|res| res)
is_ok_and(result) == result.ok /\ result.res

\* What a tick learns from a j/clients reply: how the query went and, unless
\* it panicked, the condition of main.rs:207.
clients_outcome(reply) ==
    [kind |-> reply.kind,
     override |-> IF reply.kind = "connect_error" THEN FALSE
                  ELSE is_ok_and(fullscreen_or_floating_focused(reply))]

ClientOutcomes == {clients_outcome(reply) : reply \in ClientReplies}

\* What the socket can give to j/cursorpos: a position, text that
\* serde_json rejects, no connection, or end of stream without data (the
\* while loop of get_cursor_pos never ends).
CursorReplies ==
    {[kind |-> "ok", pos |-> p] : p \in CursorPos}
        \cup {[kind |-> k, pos |-> [x |-> 0, y |-> 0]] :
                k \in {"parse_error", "connect_error", "empty"}}

\* A comparison that looks at one coordinate only.
PosEq_x_only(prev_pos, curr_pos) == prev_pos.x = curr_pos.x

\* *prev_pos == curr_pos, derived PartialEq of CursorPos
PosEq(prev_pos, curr_pos) == prev_pos.x = curr_pos.x /\ prev_pos.y = curr_pos.y

\* The outcomes of the toggle closure: spawn succeeded or failed.
ToggleResults == {"ok", "err"}

-----------------------------------------------------------------------------
\* Initial state: layers resolved visible, first position queried, threads spawned.

Init ==
    /\ cursorpos \in CursorPos
    /\ writer = FALSE
    /\ readers = {}
    /\ mutex = NoThread
    /\ dpc = "tick"
    /\ ovr = FALSE
    /\ curr = cursorpos
    /\ wpc = [l \in Layers |-> "read"]
    /\ visible = [l \in Layers |-> TRUE]
    /\ lastPos = [l \in Layers |-> cursorpos]
    /\ calls = [l \in Layers |-> 0]
    /\ log = [l \in Layers |-> "none"]
    /\ pending = {}
    /\ fresh = Layers
    /\ stored = FALSE
    /\ spc = "running"
    /\ layers = <<>>
    /\ tries = 0
    /\ probe = NoProbe
    /\ hbelief = FALSE
    /\ hist = <<>>

\* The process runs until the main thread panics.
Running == dpc # "panicked"

-----------------------------------------------------------------------------
\* Watcher threads (main.rs:186-198)

\* A branch without the debounce sleep before the hide.
toggle_visibility_no_debounce(layer, vis, cursor) ==
    LET cursor_over_layer == does_contain_cursor(layer, vis, cursor)
    IN  IF cursor_over_layer /\ ~vis THEN "reveal"
        ELSE IF ~cursor_over_layer /\ vis THEN "hide"
        ELSE "unlock"

\* A branch that reveals whenever the cursor is over the layer, whatever
\* self.visible says.
toggle_visibility_ignores_visible(layer, vis, cursor) ==
    LET cursor_over_layer == does_contain_cursor(layer, vis, cursor)
    IN  IF cursor_over_layer THEN "reveal"
        ELSE IF vis THEN "debounce"
        ELSE "unlock"

\* The branch Layer::toggle_visibility takes (main.rs:66, 73, 77): the name
\* of the watcher's next position.
toggle_visibility_branch(layer, vis, cursor) ==
    LET cursor_over_layer == does_contain_cursor(layer, vis, cursor)
    IN  IF cursor_over_layer /\ ~vis THEN "reveal"
        ELSE IF ~cursor_over_layer /\ vis THEN "debounce"
        ELSE "unlock"

\* self.visible assigned before toggle() is tried.
visible_assigned_first(vis, target, result) == target

\* self.visible after `toggle()?; self.visible = target;`: the assignment
\* is skipped when toggle() returned Err.
visible_after_toggle(vis, target, result) ==
    IF result = "ok" THEN target ELSE vis

\* The decision step begins: cursorpos.read().unwrap(), then
\* toggle_visibility computes cursor_over_layer and branches.
WatcherRead(l) ==
    /\ Running
    /\ wpc[l] = "read"
    /\ ~writer
    /\ readers' = readers \cup {l}
    /\ lastPos' = [lastPos EXCEPT ![l] = cursorpos]
    /\ pending' = pending \ {l}
    /\ wpc' = [wpc EXCEPT ![l] = toggle_visibility_branch(Layer(l), visible[l], cursorpos)]
    /\ UNCHANGED <<driverVars, mutex, visible, calls, log>>
    /\ UNCHANGED <<fresh, stored, startupVars, probeVars>>

\* main.rs:74-76, and the Err arm of main.rs:193.
WatcherReveal(l) ==
    /\ Running
    /\ wpc[l] = "reveal"
    /\ \E result \in ToggleResults :
        /\ calls' = [calls EXCEPT ![l] = @ + 1]
        /\ visible' = [visible EXCEPT ![l] = visible_after_toggle(@, TRUE, result)]
        /\ log' = [log EXCEPT ![l] = IF result = "ok" THEN "revealed" ELSE "error"]
    /\ wpc' = [wpc EXCEPT ![l] = "unlock"]
    /\ UNCHANGED <<driverVars, readers, mutex, lastPos, pending>>
    /\ UNCHANGED <<fresh, stored, startupVars, probeVars>>

\* main.rs:78: thread::sleep of one second, read guard still held.
WatcherDebounce(l) ==
    /\ Running
    /\ wpc[l] = "debounce"
    /\ wpc' = [wpc EXCEPT ![l] = "hide"]
    /\ UNCHANGED <<driverVars, readers, mutex, visible, lastPos, calls, log, pending>>
    /\ UNCHANGED <<fresh, stored, startupVars, probeVars>>

\* main.rs:79-81, and the Err arm of main.rs:193.
WatcherHide(l) ==
    /\ Running
    /\ wpc[l] = "hide"
    /\ \E result \in ToggleResults :
        /\ calls' = [calls EXCEPT ![l] = @ + 1]
        /\ visible' = [visible EXCEPT ![l] = visible_after_toggle(@, FALSE, result)]
        /\ log' = [log EXCEPT ![l] = IF result = "ok" THEN "hidden" ELSE "error"]
    /\ wpc' = [wpc EXCEPT ![l] = "unlock"]
    /\ UNCHANGED <<driverVars, readers, mutex, lastPos, pending>>
    /\ UNCHANGED <<fresh, stored, startupVars, probeVars>>

\* A read guard that outlives the decision step.
readers_after_step_kept(held, l) == held

\* the read guards left when the block of main.rs:188-195 ends
readers_after_step(held, l) == held \ {l}

\* main.rs:195: the block ends and the read guard curr_pos is dropped.
WatcherReadUnlock(l) ==
    /\ Running
    /\ wpc[l] = "unlock"
    /\ readers' = readers_after_step(readers, l)
    /\ calls' = [calls EXCEPT ![l] = 0]
    /\ log' = [log EXCEPT ![l] = "none"]
    /\ wpc' = [wpc EXCEPT ![l] = "lock"]
    /\ UNCHANGED <<driverVars, mutex, visible, lastPos, pending>>
    /\ fresh' = fresh \ {l}
    /\ UNCHANGED <<stored, startupVars, probeVars>>

\* main.rs:196: notifier.0.lock()
WatcherMutexLock(l) ==
    /\ Running
    /\ wpc[l] = "lock"
    /\ mutex = NoThread
    /\ mutex' = l
    /\ wpc' = [wpc EXCEPT ![l] = "locked"]
    /\ UNCHANGED <<driverVars, readers, visible, lastPos, calls, log, pending>>
    /\ UNCHANGED <<fresh, stored, startupVars, probeVars>>

\* main.rs:197: notifier.1.wait(lock) releases the mutex and blocks.
WatcherWait(l) ==
    /\ Running
    /\ wpc[l] = "locked"
    /\ mutex' = NoThread
    /\ wpc' = [wpc EXCEPT ![l] = "wait"]
    /\ UNCHANGED <<driverVars, readers, visible, lastPos, calls, log, pending>>
    /\ UNCHANGED <<fresh, stored, startupVars, probeVars>>

\* Condvar::wait may return without a notification (std documents spurious
\* wakeups); the loop has no predicate to re-check.
WatcherSpuriousWake(l) ==
    /\ Running
    /\ wpc[l] = "wait"
    /\ wpc' = [wpc EXCEPT ![l] = "woken"]
    /\ UNCHANGED <<driverVars, readers, mutex, visible, lastPos, calls, log, pending>>
    /\ UNCHANGED <<fresh, stored, startupVars, probeVars>>

\* A woken wait re-acquires the mutex before it returns _guard.
WatcherRelock(l) ==
    /\ Running
    /\ wpc[l] = "woken"
    /\ mutex = NoThread
    /\ mutex' = l
    /\ wpc' = [wpc EXCEPT ![l] = "drop"]
    /\ UNCHANGED <<driverVars, readers, visible, lastPos, calls, log, pending>>
    /\ UNCHANGED <<fresh, stored, startupVars, probeVars>>

\* main.rs:198: the loop body ends, _guard is dropped, the loop repeats.
WatcherGuardDrop(l) ==
    /\ Running
    /\ wpc[l] = "drop"
    /\ mutex' = NoThread
    /\ wpc' = [wpc EXCEPT ![l] = "read"]
    /\ UNCHANGED <<driverVars, readers, visible, lastPos, calls, log, pending>>
    /\ UNCHANGED <<fresh, stored, startupVars, probeVars>>

-----------------------------------------------------------------------------
\* Poll loop (main.rs:203-227)

\* A tick that never looks at the override.
AfterOverride_ignored(override) == "wlock"

\* A tick that takes the override the wrong way round.
AfterOverride_inverted(override) == IF override THEN "wlock" ELSE "tick"

\* Where the tick goes after main.rs:207: `continue` or on to the write lock.
AfterOverride(override) == IF override THEN "tick" ELSE "wlock"

\* main.rs:204-209: the tick sleeps, queries j/clients and checks the
\* override; outcome is what the query gave.
DriverCheckOutcome(outcome) ==
    /\ dpc = "tick"
    /\ IF outcome.kind = "connect_error"
       THEN /\ dpc' = "panicked"
            /\ ovr' = ovr
       ELSE /\ ovr' = outcome.override
            /\ dpc' = AfterOverride(outcome.override)
    /\ UNCHANGED <<cursorpos, writer, curr, watcherVars, pending>>
    /\ UNCHANGED <<fresh, stored, startupVars, probeVars>>

DriverCheck == \E outcome \in ClientOutcomes : DriverCheckOutcome(outcome)

\* main.rs:211: cursorpos_updater.write() waits until no guard is out.
DriverWriteLock ==
    /\ dpc = "wlock"
    /\ readers = {}
    /\ ~writer
    /\ writer' = TRUE
    /\ dpc' = "query"
    /\ UNCHANGED <<cursorpos, ovr, curr, watcherVars, pending>>
    /\ UNCHANGED <<fresh, stored, startupVars, probeVars>>

\* main.rs:213-223: the j/cursorpos query of this tick and the comparison
\* with the stored position; every `continue` drops the write guard.
DriverQueryReply(reply) ==
    /\ dpc = "query"
    /\ CASE reply.kind = "ok" ->
                IF PosEq(cursorpos, reply.pos)
                THEN /\ curr' = reply.pos
                     /\ dpc' = "tick"
                     /\ writer' = FALSE
                ELSE /\ curr' = reply.pos
                     /\ dpc' = "store"
                     /\ writer' = writer
         [] reply.kind = "parse_error" ->
                /\ curr' = curr
                /\ dpc' = "tick"
                /\ writer' = FALSE
         [] reply.kind = "connect_error" ->
                /\ curr' = curr
                /\ dpc' = "panicked"
                /\ writer' = writer
         [] reply.kind = "empty" ->
                /\ curr' = curr
                /\ dpc' = "spin"
                /\ writer' = writer
    /\ UNCHANGED <<cursorpos, ovr, watcherVars, pending>>
    /\ UNCHANGED <<fresh, stored, startupVars, probeVars>>

DriverQuery == \E reply \in CursorReplies : DriverQueryReply(reply)

\* main.rs:225
DriverStore ==
    /\ dpc = "store"
    /\ cursorpos' = curr
    /\ dpc' = "notify"
    /\ UNCHANGED <<writer, ovr, curr, watcherVars, pending>>
    /\ stored' = TRUE
    /\ UNCHANGED <<fresh, startupVars, probeVars>>

\* main.rs:226-227: notify_all wakes the threads that are blocked in wait,
\* then the loop body ends and the write guard prev_pos is dropped.
DriverNotify ==
    /\ dpc = "notify"
    /\ wpc' = [l \in Layers |-> IF wpc[l] = "wait" THEN "woken" ELSE wpc[l]]
    /\ pending' = Layers
    /\ writer' = FALSE
    /\ dpc' = "tick"
    /\ UNCHANGED <<cursorpos, ovr, curr, readers, mutex, visible, lastPos, calls, log>>
    /\ UNCHANGED <<fresh, stored, startupVars, probeVars>>

-----------------------------------------------------------------------------

Watcher(l) ==
    \/ WatcherRead(l)
    \/ WatcherReveal(l)
    \/ WatcherDebounce(l)
    \/ WatcherHide(l)
    \/ WatcherReadUnlock(l)
    \/ WatcherMutexLock(l)
    \/ WatcherWait(l)
    \/ WatcherSpuriousWake(l)
    \/ WatcherRelock(l)
    \/ WatcherGuardDrop(l)

Driver ==
    \/ DriverCheck
    \/ DriverWriteLock
    \/ DriverQuery
    \/ DriverStore
    \/ DriverNotify

Next == Driver \/ \E l \in Layers : Watcher(l)

Spec == Init /\ [][Next]_vars


-----------------------------------------------------------------------------
\* Steps the properties speak of

\* Watcher l calls toggle() in this step.
Actuates(l) == calls'[l] = calls[l] + 1

\* Watcher l leaves the position it is at.
Moves(l) == wpc'[l] # wpc[l]

\* The poll loop takes a step.
DriverMoves == dpc' # dpc

-----------------------------------------------------------------------------
\* C1: every watcher is woken on every real change.  A watcher that is
\* blocked in Condvar::wait has answered every notify_all with a decision
\* step: no broadcast issued since its latest decision step began is still
\* outstanding while it is blocked.
C1_EveryBroadcastWakes ==
    \A l \in Layers : wpc[l] = "wait" => l \notin pending

\* C2: a watcher cannot be waiting on stale information.  For every watcher
\* blocked in Condvar::wait, the position of its latest decision step is
\* the stored position (except in the instant between the store and the
\* notify_all of one tick, whose broadcast is still to come).
C2_NoStaleWait ==
    \A l \in Layers :
        (wpc[l] = "wait" /\ dpc # "notify") => lastPos[l] = cursorpos

\* C3: a watcher's debounce delay blocks nobody else.  While a watcher is
\* in the debounce sleep and no other thread holds a guard, the poll loop
\* that asks for the write access can take it.
C3_DebounceBlocksNobody ==
    \A l \in Layers :
        (wpc[l] = "debounce" /\ dpc = "wlock" /\ readers \subseteq {l} /\ ~writer)
            => ENABLED DriverWriteLock

\* C4: a tick stores the queried position and broadcasts if and only if it
\* differs from the stored one.  After the query the tick goes on to the
\* store exactly when the queried position differs; the position is
\* written by the store step alone, whose next poll-loop step is the
\* notify_all; notify_all is reached only from a store; and a tick that
\* queried the stored position ends without waking or writing anything.
C4_BroadcastIffChanged ==
    [][ /\ (dpc = "query" /\ DriverMoves /\ dpc' \notin {"panicked", "spin"})
            => /\ (dpc' = "store") <=> (curr' # cursorpos)
               /\ (dpc' # "store") => (dpc' = "tick" /\ ~writer')
               /\ UNCHANGED <<cursorpos, wpc, pending>>
        /\ (cursorpos' # cursorpos)
            => (dpc = "store" /\ cursorpos' = curr /\ dpc' = "notify")
        /\ (dpc = "store" /\ DriverMoves) => cursorpos' # cursorpos
        /\ (dpc' = "notify" /\ DriverMoves) => dpc = "store"
        /\ (dpc = "notify" /\ DriverMoves)
            => /\ dpc' = "tick"
               /\ pending' = Layers
               /\ \A l \in Layers : wpc[l] = "wait" => wpc'[l] = "woken"
        /\ (pending' # pending /\ pending' = Layers) => dpc = "notify"
      ]_vars

\* C4 witness: a changed position has just been stored while a watcher is
\* blocked in wait, and the broadcast is the poll loop's next step.
C4_Witness ==
    /\ dpc = "notify"
    /\ cursorpos = curr
    /\ \E l \in Layers : wpc[l] = "wait" /\ lastPos[l] # cursorpos

\* C5 as stated: a decision step that found the pointer outside while
\* Visible sleeps, then calls toggle() exactly once and leaves the belief
\* Hidden with one "hidden" report, whatever else is the case.
C5_HideAlwaysHides ==
    [][ \A l \in Layers :
          /\ (wpc[l] = "debounce" /\ Moves(l)) => wpc'[l] = "hide"
          /\ (wpc[l] = "hide" /\ Moves(l))
                => /\ Actuates(l)
                   /\ calls'[l] = 1
                   /\ ~visible'[l]
                   /\ log'[l] = "hidden"
      ]_vars

\* C5 amended: a decision step that found the pointer outside while Visible
\* goes into the debounce sleep, after which it calls toggle() exactly once
\* without another hit test; the belief becomes Hidden, with one "hidden"
\* report, when that call succeeds, and stays Visible, with an error
\* report, when it fails.
C5_HideAfterDebounce ==
    [][ \A l \in Layers :
          /\ (wpc[l] = "read" /\ Moves(l) /\ visible[l]
                /\ ~does_contain_cursor(Layer(l), TRUE, cursorpos))
                => (wpc'[l] = "debounce" /\ calls'[l] = 0 /\ visible'[l])
          /\ (wpc'[l] = "hide" /\ Moves(l)) => wpc[l] = "debounce"
          /\ (wpc[l] = "debounce" /\ Moves(l))
                => (wpc'[l] = "hide" /\ calls'[l] = 0 /\ visible'[l])
          /\ (wpc[l] = "hide" /\ Moves(l))
                => /\ Actuates(l)
                   /\ calls'[l] = 1
                   /\ wpc'[l] = "unlock"
                   /\ \/ (log'[l] = "hidden" /\ ~visible'[l])
                      \/ (log'[l] = "error" /\ visible'[l])
          /\ (log'[l] = "hidden" /\ log[l] # "hidden") => wpc[l] = "hide"
      ]_vars

\* C5 witness: a debounced hide has gone through.
C5_Witness ==
    \E l \in Layers :
        wpc[l] = "unlock" /\ log[l] = "hidden" /\ ~visible[l] /\ calls[l] = 1

\* C6: toggle() is called only in a decision step whose hit test differs
\* from the belief; a step whose hit test agrees with the belief calls
\* nothing and leaves the belief as it was, however often it is repeated.
C6_ActuateOnlyOnMismatch ==
    [][ \A l \in Layers :
          /\ Actuates(l)
                => does_contain_cursor(Layer(l), visible[l], lastPos[l]) # visible[l]
          /\ (wpc[l] = "read" /\ Moves(l)
                /\ does_contain_cursor(Layer(l), visible[l], cursorpos) = visible[l])
                => (wpc'[l] = "unlock" /\ calls'[l] = 0 /\ visible'[l] = visible[l])
          /\ (wpc[l] = "unlock" /\ Moves(l))
                => (~Actuates(l) /\ visible'[l] = visible[l])
          /\ (visible'[l] # visible[l]) => Actuates(l)
      ]_vars

\* C6 witness: a Hidden watcher has run a decision step with the pointer
\* outside its region and called nothing.
C6_Witness ==
    \E l \in Layers :
        /\ wpc[l] = "unlock"
        /\ calls[l] = 0
        /\ ~visible[l]
        /\ ~does_contain_cursor(Layer(l), FALSE, lastPos[l])

\* C7: a failed toggle() leaves the belief as it was, is reported, and the
\* watcher goes on to drop its guard and block; the belief changes only in
\* a step whose toggle() succeeded.
C7_FailedToggleKeepsBelief ==
    [][ \A l \in Layers :
          /\ (Actuates(l) /\ log'[l] = "error")
                => (visible'[l] = visible[l] /\ wpc'[l] = "unlock")
          /\ (visible'[l] # visible[l])
                => (Actuates(l) /\ log'[l] \in {"revealed", "hidden"})
          /\ Actuates(l) => log'[l] \in {"revealed", "hidden", "error"}
          /\ (wpc[l] = "unlock" /\ log[l] = "error" /\ Moves(l))
                => (wpc'[l] = "lock" /\ visible'[l] = visible[l])
      ]_vars

\* C7 witness: a hide whose toggle() failed has ended with the belief
\* still Visible.
C7_Witness ==
    \E l \in Layers :
        /\ wpc[l] = "unlock"
        /\ log[l] = "error"
        /\ visible[l]
        /\ ~does_contain_cursor(Layer(l), TRUE, lastPos[l])

\* C8 as stated: while the override is true on consecutive ticks no watcher
\* calls toggle().
C8_NoActuationUnderOverride ==
    [][ (ovr /\ ovr') => \A l \in Layers : ~Actuates(l) ]_vars

\* C8 amended: while the override is true on consecutive ticks the poll
\* loop stores nothing and wakes nobody: a watcher blocked in wait leaves it
\* only by a spurious wakeup, no broadcast becomes outstanding, and every
\* toggle() of the span belongs to a decision step on the position stored
\* before the span.
C8_OverrideWakesNobody ==
    [][ (ovr /\ ovr')
          => /\ cursorpos' = cursorpos
             /\ pending' \subseteq pending
             /\ \A l \in Layers :
                  /\ (wpc[l] = "wait" /\ Moves(l)) => WatcherSpuriousWake(l)
                  /\ Actuates(l) => lastPos[l] = cursorpos
      ]_vars

\* C8 witness: inside an override span one watcher is about to hide after
\* its debounce sleep while another is blocked in wait.
C8_Witness ==
    /\ ovr
    /\ dpc = "tick"
    /\ \E l \in Layers : wpc[l] = "hide"
    /\ \E l \in Layers : wpc[l] = "wait"

\* C9: a tick whose override is true ends at once and leaves the position,
\* the locks and every watcher alone; the override of a tick is the value
\* its own j/clients query gave, and the poll loop is never at or past the
\* write lock with a true override.
C9_OverrideTickLeavesCursorState ==
    [][ /\ \A outcome \in ClientOutcomes :
              (outcome.kind # "connect_error" /\ DriverCheckOutcome(outcome))
                => /\ ovr' = outcome.override
                   /\ outcome.override
                        => /\ dpc' = "tick"
                           /\ UNCHANGED <<cursorpos, curr, writer, readers, wpc, pending>>
        /\ (dpc' \in {"wlock", "query", "store", "notify", "spin"}) => ~ovr'
      ]_vars

\* C9 witness: an override tick has ended while a watcher was blocked in
\* wait on a position other than the one it last used.
C9_Witness ==
    /\ ovr
    /\ dpc = "tick"
    /\ ~writer
    /\ \E l \in Layers : wpc[l] = "wait" /\ lastPos[l] # cursorpos

\* C10: a tick whose j/clients query failed goes on as a tick without
\* override: the poll loop keeps running and asks for the write lock.
C10_FailOpen ==
    [][ \A outcome \in ClientOutcomes :
          (outcome.kind # "ok" /\ DriverCheckOutcome(outcome))
            => (dpc' = "wlock" /\ ~ovr')
      ]_vars

\* C11: a tick whose j/cursorpos query failed is skipped and is never
\* fatal: the position stays, nobody is woken, the write guard is dropped
\* and the poll loop is back at the start of a tick.
C11_FailedQuerySkipsTick ==
    [][ \A reply \in CursorReplies :
          (reply.kind # "ok" /\ DriverQueryReply(reply))
            => /\ dpc' = "tick"
               /\ ~writer'
               /\ UNCHANGED <<cursorpos, wpc, pending>>
      ]_vars

-----------------------------------------------------------------------------
(***************************************************************************)
(* Startup, main.rs:171-199: main calls get_layers until it returns as     *)
(* many layers as namespaces were requested, reads the cursor position     *)
(* once and spawns one thread per returned layer.  The requested           *)
(* namespaces are the two of Layers; a reply of j/layers is the sequence   *)
(* of the namespaces of the surfaces it lists.                             *)
(***************************************************************************)

MaxSurfaces == 3
MaxQueries == 3

namespace == <<"top", "bottom">>

SurfaceTags == Layers \cup {"other"}

SurfaceLists == UNION { [1..n -> SurfaceTags] : n \in 0..MaxSurfaces }

SurfaceReplies ==
    { [kind |-> "ok", surfaces |-> s] : s \in SurfaceLists }
      \cup { [kind |-> k, surfaces |-> <<>>] : k \in {"parse_error", "connect_error"} }

Requested(namespaces, tag) == \E i \in 1..Len(namespaces) : namespaces[i] = tag

\* A filter_map that leaves visible at its serde default.
get_layers_keeps_default(namespaces, surfaces) ==
    LET matched == SelectSeq(surfaces, LAMBDA tag : Requested(namespaces, tag))
    IN  [i \in 1..Len(matched) |-> [namespace |-> matched[i], visible |-> FALSE]]

\* filter_map of main.rs:112-123: every listed surface whose namespace is
\* one of the requested ones is kept, in the order of the reply, with
\* visible: true.
get_layers(namespaces, surfaces) ==
    LET matched == SelectSeq(surfaces, LAMBDA tag : Requested(namespaces, tag))
    IN  [i \in 1..Len(matched) |-> [namespace |-> matched[i], visible |-> TRUE]]

\* A loop that only waits for enough layers.
retry_while_fewer(found, namespaces) == Len(found) < Len(namespaces)

\* the loop condition of main.rs:173
retry(found, namespaces) == Len(found) # Len(namespaces)

OnePerNamespace(found) ==
    \A tag \in Layers :
        Cardinality({ i \in 1..Len(found) : found[i].namespace = tag }) = 1

VisibleOf(found, tag) ==
    LET i == CHOOSE i \in 1..Len(found) : found[i].namespace = tag
    IN  found[i].visible

NoPos == [x |-> 0, y |-> 0]

\* the threads are not there yet
Unspawned ==
    /\ cursorpos = NoPos
    /\ writer = FALSE
    /\ readers = {}
    /\ mutex = NoThread
    /\ dpc = "startup"
    /\ ovr = FALSE
    /\ curr = NoPos
    /\ wpc = [l \in Layers |-> "unspawned"]
    /\ visible = [l \in Layers |-> FALSE]
    /\ lastPos = [l \in Layers |-> NoPos]
    /\ calls = [l \in Layers |-> 0]
    /\ log = [l \in Layers |-> "none"]
    /\ pending = {}
    /\ fresh = Layers
    /\ stored = FALSE

StartupInit ==
    /\ Unspawned
    /\ spc = "get_layers"
    /\ layers = <<>>
    /\ tries = 0
    /\ probe = NoProbe
    /\ hbelief = FALSE
    /\ hist = <<>>

\* main.rs:171 and one round of the loop of main.rs:173-176
StartupGetLayersReply(reply) ==
    /\ spc = "get_layers"
    /\ tries < MaxQueries
    /\ tries' = tries + 1
    /\ IF reply.kind # "ok"
       THEN /\ spc' = "panicked"
            /\ layers' = layers
       ELSE /\ layers' = get_layers(namespace, reply.surfaces)
            /\ spc' = IF retry(layers', namespace) THEN "get_layers" ELSE "resolved"
    /\ UNCHANGED <<threadVars, probeVars>>

StartupGetLayers == \E reply \in SurfaceReplies : StartupGetLayersReply(reply)

\* main.rs:178-199: the first get_cursor_pos and the spawn of the threads.
\* The threads are followed when the list holds one layer per requested
\* namespace; the run with any other list ends here.
StartupSpawnReply(reply) ==
    /\ spc = "resolved"
    /\ IF reply.kind = "ok" /\ OnePerNamespace(layers)
       THEN /\ cursorpos' = reply.pos
            /\ curr' = reply.pos
            /\ lastPos' = [l \in Layers |-> reply.pos]
            /\ visible' = [l \in Layers |-> VisibleOf(layers, l)]
            /\ wpc' = [l \in Layers |-> "read"]
            /\ dpc' = "tick"
            /\ spc' = "running"
            /\ layers' = <<>>
            /\ tries' = 0
            /\ UNCHANGED <<writer, readers, mutex, ovr, calls, log, pending, fresh, stored>>
       ELSE /\ spc' = CASE reply.kind = "ok" -> "mismatched"
                        [] reply.kind = "empty" -> "spin"
                        [] OTHER -> "panicked"
            /\ UNCHANGED <<threadVars, layers, tries>>
    /\ UNCHANGED probeVars

StartupSpawn == \E reply \in CursorReplies : StartupSpawnReply(reply)

StartupSpec == StartupInit /\ [][StartupGetLayers \/ StartupSpawn \/ Next]_vars

\* C12: startup asks for the layers again exactly as long as the number of
\* matched layers differs from the number of requested namespaces; no
\* watcher thread exists and the poll loop has not started while it does,
\* the threads are spawned from a list of equal count only, and every layer
\* of that list, and so every watcher's belief at spawn, is visible.
C12_RetryUntilCountsMatch ==
    [][ /\ spc = "get_layers" =>
              /\ Unspawned
              /\ \A reply \in SurfaceReplies :
                    (reply.kind = "ok" /\ StartupGetLayersReply(reply))
                      => /\ (spc' = "get_layers") <=> (Len(layers') # Len(namespace))
                         /\ (spc' = "resolved") <=> (Len(layers') = Len(namespace))
                         /\ \A i \in 1..Len(layers') : layers'[i].visible
        /\ ((\E l \in Layers : wpc'[l] # wpc[l] /\ wpc[l] = "unspawned")
              \/ (dpc = "startup" /\ dpc' # "startup"))
             => /\ spc = "resolved"
                /\ Len(layers) = Len(namespace)
                /\ \A l \in Layers : visible'[l]
      ]_vars

\* the layers were matched by the third query, after two whose counts
\* differed, and all of them are visible
C12_Witness ==
    /\ spc = "resolved"
    /\ tries >= 3
    /\ Len(layers) = Len(namespace)
    /\ \A i \in 1..Len(layers) : layers[i].visible

\* C13: when the startup loop is left, the list holds exactly one layer for
\* each requested namespace.
C13_OneLayerPerNamespace == spc = "resolved" => OnePerNamespace(layers)

-----------------------------------------------------------------------------
(***************************************************************************)
(* Layer::toggle_visibility on its own (main.rs:39-85): one layer of any   *)
(* rectangle of a bounded set, with any belief, is handed the same pointer *)
(* position by consecutive calls; each call's spawn of pkill may fail.     *)
(***************************************************************************)

MaxSide == 3
MaxSteps == 2

ProbeRects == [x : 0..1, y : 0..MaxSide, w : 0..MaxSide, h : 0..MaxSide]

ProbeCursors == [x : 0..(MaxSide + 2), y : 0..(3 * MaxSide)]

Probes == [layer : ProbeRects, cursor : ProbeCursors]

HitInit ==
    /\ Unspawned
    /\ spc = "probe"
    /\ layers = <<>>
    /\ tries = 0
    /\ probe \in Probes
    /\ hbelief \in BOOLEAN
    /\ hist = <<>>

\* One call of toggle_visibility, from the hit test to its return.
ProbeToggle ==
    /\ spc = "probe"
    /\ Len(hist) < MaxSteps
    /\ LET branch == toggle_visibility_branch(probe.layer, hbelief, probe.cursor)
       IN  IF branch = "unlock"
           THEN /\ hbelief' = hbelief
                /\ hist' = Append(hist, [act |-> "none", result |-> "ok"])
           ELSE \E result \in ToggleResults :
                /\ hbelief' = visible_after_toggle(hbelief, branch = "reveal", result)
                /\ hist' = Append(hist, [act |-> IF branch = "reveal" THEN "reveal" ELSE "hide",
                                         result |-> result])
    /\ UNCHANGED <<threadVars, startupVars, probe>>

HitSpec == HitInit /\ [][ProbeToggle]_vars

StrictlyInside(layer, cursor) ==
    /\ layer.x < cursor.x /\ cursor.x < layer.x + layer.w
    /\ layer.y < cursor.y /\ cursor.y < layer.y + layer.h

\* C14 as stated: a pointer strictly inside the rectangle is hit with
\* either belief.
C14_InsideHitWithAnyBelief ==
    (spc = "probe" /\ StrictlyInside(probe.layer, probe.cursor))
        => \A vis \in BOOLEAN : does_contain_cursor(probe.layer, vis, probe.cursor)

\* C14: a pointer strictly inside the rectangle is hit while the layer is
\* believed visible; while it is believed hidden it is hit exactly when it
\* is also at least the buffer away from the edge the buffer is applied to.
C14_InsideHitWhenVisible ==
    (spc = "probe" /\ StrictlyInside(probe.layer, probe.cursor))
        => /\ does_contain_cursor(probe.layer, TRUE, probe.cursor)
           /\ does_contain_cursor(probe.layer, FALSE, probe.cursor)
                <=> IF probe.layer.y > probe.layer.h
                    THEN 3 * probe.cursor.y >= 3 * probe.layer.y + 2 * probe.layer.h
                    ELSE 3 * probe.cursor.y <= 3 * (probe.layer.y + probe.layer.h) - 2 * probe.layer.h

\* a hidden layer was handed a pointer strictly inside its rectangle and
\* did not reveal
C14_Witness ==
    /\ spc = "probe"
    /\ StrictlyInside(probe.layer, probe.cursor)
    /\ ~hbelief
    /\ Len(hist) = 1
    /\ hist[1].act = "none"

InHysteresisBand(layer, cursor) ==
    /\ layer.y > layer.h
    /\ layer.x <= cursor.x /\ cursor.x <= layer.x + layer.w
    /\ cursor.y < layer.y
    /\ 3 * (layer.y - cursor.y) < 2 * layer.h

\* C15: for a layer with y > h and a pointer within its columns at
\* y - d, 0 < d < h*2/3, the hit test is true with visible = true and false
\* with visible = false.
C15_HysteresisAsymmetry ==
    (spc = "probe" /\ InHysteresisBand(probe.layer, probe.cursor))
        => /\ does_contain_cursor(probe.layer, TRUE, probe.cursor)
           /\ ~does_contain_cursor(probe.layer, FALSE, probe.cursor)

\* a layer in the band was called twice: the visible one stayed as it was,
\* and so would the hidden one
C15_Witness ==
    /\ spc = "probe"
    /\ InHysteresisBand(probe.layer, probe.cursor)
    /\ Len(hist) = 2
    /\ hist[1].act = "none"
    /\ hist[2].act = "none"
    /\ hbelief

\* The intervals of the hit test as the claim gives them, times 3.
ReferenceLow3(layer, vis) ==
    IF layer.y > layer.h
    THEN (IF vis THEN 3 * layer.y - 2 * layer.h ELSE 3 * layer.y + 2 * layer.h)
    ELSE 3 * layer.y

ReferenceHigh3(layer, vis) ==
    IF layer.y > layer.h
    THEN 3 * (layer.y + layer.h)
    ELSE (IF vis THEN 3 * (layer.y + layer.h) + 2 * layer.h
                 ELSE 3 * (layer.y + layer.h) - 2 * layer.h)

ReferenceHit(layer, vis, cursor) ==
    /\ cursor.x \in layer.x..(layer.x + layer.w)
    /\ 3 * cursor.y \in ReferenceLow3(layer, vis)..ReferenceHigh3(layer, vis)

\* C16: does_contain_cursor is the reference hit test: the pointer is in
\* the unbuffered column interval and in the row interval of the layer's
\* anchor and belief, every edge included.
C16_EqualsReference ==
    spc = "probe"
        => \A vis \in BOOLEAN :
              does_contain_cursor(probe.layer, vis, probe.cursor)
                <=> ReferenceHit(probe.layer, vis, probe.cursor)

\* a hidden layer was revealed by a pointer on the right edge and on the
\* buffered lower edge of its hidden interval
C16_Witness ==
    /\ spc = "probe"
    /\ probe.layer.h > 0
    /\ probe.cursor.x = probe.layer.x + probe.layer.w
    /\ 3 * probe.cursor.y = ReferenceHigh3(probe.layer, FALSE)
    /\ Len(hist) = 1
    /\ hist[1] = [act |-> "reveal", result |-> "ok"]
    /\ hbelief

\* C19 as stated: two consecutive calls with the same pointer position
\* never both invoke the actuator.
C19_NeverTwoActuations ==
    \A i \in 1..(Len(hist) - 1) : ~(hist[i].act # "none" /\ hist[i + 1].act # "none")

\* C19: the hidden hit region is inside the visible one, so of two
\* consecutive calls with the same pointer position the second never
\* undoes the first (no hide after a reveal, no reveal after a hide) and
\* invokes nothing at all when the first one's spawn succeeded; after a
\* failed spawn the second call tries the same actuation again.
C19_NoFlicker ==
    spc = "probe"
        => /\ does_contain_cursor(probe.layer, FALSE, probe.cursor)
                => does_contain_cursor(probe.layer, TRUE, probe.cursor)
           /\ \A i \in 1..(Len(hist) - 1) :
                /\ ~(hist[i].act = "reveal" /\ hist[i + 1].act = "hide")
                /\ ~(hist[i].act = "hide" /\ hist[i + 1].act = "reveal")
                /\ (hist[i].act # "none" /\ hist[i].result = "ok") => hist[i + 1].act = "none"
                /\ (hist[i].act # "none" /\ hist[i].result = "err") => hist[i + 1].act = hist[i].act

\* a reveal that went through was followed by a call that did nothing
C19_Witness ==
    /\ Len(hist) = 2
    /\ hist[1] = [act |-> "reveal", result |-> "ok"]
    /\ hist[2].act = "none"

-----------------------------------------------------------------------------
(***************************************************************************)
(* Fair scheduling: the poll loop and every watcher thread keep taking     *)
(* the steps they can take.  A spurious return of Condvar::wait is never   *)
(* something a thread can count on, so no fairness is put on it.           *)
(***************************************************************************)

WatcherProgress(l) ==
    \/ WatcherRead(l)
    \/ WatcherReveal(l)
    \/ WatcherDebounce(l)
    \/ WatcherHide(l)
    \/ WatcherReadUnlock(l)
    \/ WatcherMutexLock(l)
    \/ WatcherWait(l)
    \/ WatcherRelock(l)
    \/ WatcherGuardDrop(l)

FairSpec ==
    /\ Spec
    /\ WF_vars(Driver)
    /\ \A l \in Layers : WF_vars(WatcherProgress(l))

\* the belief of l is what the hit test of position p makes of it
Agree(l, p) == visible[l] <=> does_contain_cursor(Layer(l), visible[l], p)

\* Every thread is where only a change of the pointer position moves a
\* watcher on: the poll loop is between two ticks and every watcher is
\* blocked in Condvar::wait.
AtRest ==
    /\ dpc = "tick"
    /\ \A l \in Layers : wpc[l] = "wait"

\* C17: once every watcher is blocked in the wait and the poll loop is
\* between ticks, the belief of every watcher whose latest decision step
\* went through (it agrees with the hit test of the position that step
\* read) agrees with the hit test of the stored position: with the pointer
\* resting there nothing will wake the watcher again, so this is the
\* belief it keeps.
C17_AgreeAtRest ==
    AtRest => \A l \in Layers : Agree(l, lastPos[l]) => Agree(l, cursorpos)

SpuriousWake == \E l \in Layers : WatcherSpuriousWake(l)

-----------------------------------------------------------------------------
\* The first decision step of a watcher: l is in fresh from the spawn to
\* the end of its first step.

FirstRead(l) == l \in fresh /\ WatcherRead(l)

FirstHide(l) == l \in fresh /\ WatcherHide(l)

\* C20 as stated: the first decision step of every watcher reads the
\* position queried at startup, and a layer that does not contain it is
\* hidden when the debounce is over.
C20_FirstStepOnInitialPosition ==
    [][ \A l \in Layers :
          /\ FirstRead(l) => ~stored
          /\ FirstHide(l) => ~visible'[l]
      ]_vars

\* C20: a watcher starts with belief visible and runs its first decision
\* step without waiting for a broadcast, against the position stored when it
\* takes the read guard, which is the one queried at startup as long as the
\* poll loop has stored none: a layer whose visible region does not
\* contain it sleeps through the debounce, calls the actuator once and is
\* hidden if that call went through; a layer that contains it goes to the
\* end of the step without calling the actuator.
C20_FirstStep ==
    [][ /\ ~stored' => (spc # "running" \/ cursorpos' = cursorpos)
        /\ \A l \in Layers :
            /\ l \in fresh =>
                 wpc[l] \in {"unspawned", "read", "debounce", "hide", "unlock"}
            /\ (l \in fresh /\ wpc[l] = "read") => visible[l]
            /\ FirstRead(l) =>
                 /\ lastPos'[l] = cursorpos
                 /\ wpc'[l] = IF does_contain_cursor(Layer(l), TRUE, cursorpos)
                              THEN "unlock" ELSE "debounce"
                 /\ calls'[l] = 0
            /\ (l \in fresh /\ WatcherDebounce(l)) => calls'[l] = 0
            /\ FirstHide(l) =>
                 /\ calls'[l] = 1
                 /\ ~visible'[l] <=> log'[l] = "hidden"
                 /\ visible'[l] <=> log'[l] = "error"
            /\ (l \in fresh /\ WatcherReadUnlock(l)) =>
                 /\ calls[l] <= 1
                 /\ calls[l] = 1 <=> ~does_contain_cursor(Layer(l), TRUE, lastPos[l])
      ]_vars

\* a watcher is at the end of its first step and has hidden its layer,
\* while the position is still the one queried at startup and nothing was
\* broadcast
C20_Witness ==
    \E l \in Layers :
        /\ l \in fresh
        /\ wpc[l] = "unlock"
        /\ log[l] = "hidden"
        /\ ~visible[l]
        /\ ~stored
        /\ pending = {}

====
